---- MODULE Spec2Model ----
(***************************************************************************)
(* Nirava intake engine: IntakeAgent (agents/intake_agent.py), the session *)
(* records (models/session.py) and the turn handler NiravaSystem.process   *)
(* (adk_main.py).                                                          *)
(*                                                                         *)
(* Python values are tagged records, so that a field, a raw payload value  *)
(* and None can be compared:                                               *)
(*   [k |-> "none"]                     None                               *)
(*   [k |-> "int",   i |-> 7]           int                                *)
(*   [k |-> "float", n |-> 11, d |-> 2] float, the rational n/d            *)
(*   [k |-> "inf"]                      float("inf")                       *)
(*   [k |-> "bool",  b |-> TRUE]        bool                               *)
(*   [k |-> "str",   c |-> <<"5","-","6">>]  str, one element per char     *)
(*   [k |-> "list"]                     the list ["x"]: no dict, no str    *)
(* Text is a sequence of one-character strings, so that substring search,  *)
(* split, strip, lower and upper are computed and not assumed.             *)
(***************************************************************************)
EXTENDS Integers, Sequences, FiniteSets, TLC

None == [k |-> "none"]
PyInt(x) == [k |-> "int", i |-> x]
PyFloat(num, den) == [k |-> "float", n |-> num, d |-> den]
PyInf == [k |-> "inf"]
PyBool(x) == [k |-> "bool", b |-> x]
PyStr(chars) == [k |-> "str", c |-> chars]
PyList == [k |-> "list"]

(***************************************************************************)
(* Text primitives (str.lower, str.upper, str.strip, "in", str.split).     *)
(***************************************************************************)
UpperChars == <<"A","B","C","D","E","F","G","H","I","J","K","L","M",
                "N","O","P","Q","R","S","T","U","V","W","X","Y","Z">>
LowerChars == <<"a","b","c","d","e","f","g","h","i","j","k","l","m",
                "n","o","p","q","r","s","t","u","v","w","x","y","z">>

LowerChar(ch) ==
    IF \E i \in 1..26 : UpperChars[i] = ch
    THEN LowerChars[CHOOSE i \in 1..26 : UpperChars[i] = ch]
    ELSE ch

UpperChar(ch) ==
    IF \E i \in 1..26 : LowerChars[i] = ch
    THEN UpperChars[CHOOSE i \in 1..26 : LowerChars[i] = ch]
    ELSE ch

Lower(s) == [i \in 1..Len(s) |-> LowerChar(s[i])]
Upper(s) == [i \in 1..Len(s) |-> UpperChar(s[i])]

IsSpace(ch) == ch = " "

RECURSIVE LStrip(_)
LStrip(s) == IF s # <<>> /\ IsSpace(s[1]) THEN LStrip(Tail(s)) ELSE s

RECURSIVE RStrip(_)
RStrip(s) ==
    IF s # <<>> /\ IsSpace(s[Len(s)]) THEN RStrip(SubSeq(s, 1, Len(s) - 1)) ELSE s

Strip(s) == RStrip(LStrip(s))

\* the text starts with the pattern at position i
MatchAt(s, pat, i) ==
    /\ i + Len(pat) - 1 <= Len(s)
    /\ \A j \in 1..Len(pat) : s[i + j - 1] = pat[j]

\* pat in s
Contains(s, pat) == \E i \in 1..(Len(s) - Len(pat) + 1) : MatchAt(s, pat, i)

\* s.find(pat) + 1, or 0 when absent
Find(s, pat) ==
    IF Contains(s, pat)
    THEN CHOOSE i \in 1..(Len(s) - Len(pat) + 1) :
            /\ MatchAt(s, pat, i)
            /\ \A j \in 1..(i - 1) : ~MatchAt(s, pat, j)
    ELSE 0

\* s.split(sep): the parts between the non-overlapping occurrences of sep
RECURSIVE Split(_, _)
Split(s, sep) ==
    LET p == Find(s, sep) IN
    IF p = 0 THEN <<s>>
    ELSE <<SubSeq(s, 1, p - 1)>> \o Split(SubSeq(s, p + Len(sep), Len(s)), sep)

\* s.replace(".", "")
RemoveDots(s) == SelectSeq(s, LAMBDA ch : ch # ".")

\* " ".join(parts)
RECURSIVE JoinSpace(_)
JoinSpace(parts) ==
    IF parts = <<>> THEN <<>>
    ELSE IF Len(parts) = 1 THEN parts[1]
    ELSE parts[1] \o <<" ">> \o JoinSpace(Tail(parts))

(***************************************************************************)
(* Digits and numbers.  HugeRun stands for one run of more than 308        *)
(* decimal digits: it is a digit for str.isdigit and for \d, and float()   *)
(* of a run that contains it is inf.                                       *)
(***************************************************************************)
Digits == <<"0","1","2","3","4","5","6","7","8","9">>
HugeRun == "9{309}"

IsDigit(ch) == ch = HugeRun \/ \E i \in 1..10 : Digits[i] = ch
DigitVal(ch) == (CHOOSE i \in 1..10 : Digits[i] = ch) - 1

\* str.isdigit
IsDigitStr(s) == s # <<>> /\ \A i \in 1..Len(s) : IsDigit(s[i])

HasHuge(s) == \E i \in 1..Len(s) : s[i] = HugeRun

RECURSIVE DigitsVal(_)
DigitsVal(s) ==
    IF s = <<>> THEN 0
    ELSE 10 * DigitsVal(SubSeq(s, 1, Len(s) - 1)) + DigitVal(s[Len(s)])

RECURSIVE Pow10(_)
Pow10(e) == IF e = 0 THEN 1 ELSE 10 * Pow10(e - 1)

RECURSIVE GCD(_, _)
GCD(a, b) == IF b = 0 THEN a ELSE GCD(b, a % b)

Rat(num, den) == LET g == GCD(num, den) IN PyFloat(num \div g, den \div g)

\* float(text) for a text of digits with at most one "." (and some digit);
\* a HugeRun among the fraction digits rounds the fraction up at its place
FloatOfDecimal(s) ==
    LET p  == Find(s, <<".">>)
        ip == IF p = 0 THEN s ELSE SubSeq(s, 1, p - 1)
        fp == IF p = 0 THEN <<>> ELSE SubSeq(s, p + 1, Len(s))
        h  == Find(fp, <<HugeRun>>)
        f1 == IF h = 0 THEN fp ELSE SubSeq(fp, 1, h - 1)
    IN  IF HasHuge(ip) THEN PyInf
        ELSE Rat(DigitsVal(ip) * Pow10(Len(f1)) + DigitsVal(f1) + (IF h = 0 THEN 0 ELSE 1),
                 Pow10(Len(f1)))

\* str(n) of an int
RECURSIVE NatChars(_)
NatChars(x) ==
    IF x < 10 THEN <<Digits[x + 1]>>
    ELSE NatChars(x \div 10) \o <<Digits[(x % 10) + 1]>>

IntChars(x) == IF x < 0 THEN <<"-">> \o NatChars(0 - x) ELSE NatChars(x)

\* the digits of the fraction r / den
RECURSIVE FracChars(_, _)
FracChars(r, den) ==
    IF r = 0 THEN <<>>
    ELSE <<Digits[((10 * r) \div den) + 1]>> \o FracChars((10 * r) % den, den)

\* the decimal exponent of a positive float below 1: the least e with
\* num * 10^e >= den
RECURSIVE DecimalExponent(_, _, _)
DecimalExponent(num, den, e) ==
    IF num * Pow10(e) >= den THEN e ELSE DecimalExponent(num, den, e + 1)

\* str(value): repr of ints, of floats with a terminating decimal expansion
\* (a positive float below 0.0001 as its digits, "e-" and the exponent in two
\* places or more: "1e-05", "2.5e-05"), of bools, of inf and of the list ["x"]
StrOf(v) ==
    LET ExponentRepr(num, den) ==
            LET e == DecimalExponent(num, den, 5)
                m == num * Pow10(e)
            IN  NatChars(m \div den) \o
                (IF m % den = 0 THEN <<>> ELSE <<".">> \o FracChars(m % den, den)) \o
                <<"e", "-">> \o (IF e < 10 THEN <<"0">> ELSE <<>>) \o NatChars(e)
        FloatRepr(num, den) ==
            IF num > 0 /\ num * 10000 < den THEN ExponentRepr(num, den)
            ELSE NatChars(num \div den) \o <<".">> \o
                 (IF num % den = 0 THEN <<"0">> ELSE FracChars(num % den, den))
    IN
    CASE v.k = "str"   -> v.c
      [] v.k = "int"   -> IntChars(v.i)
      [] v.k = "float" -> IF v.n < 0 THEN <<"-">> \o FloatRepr(0 - v.n, v.d)
                          ELSE FloatRepr(v.n, v.d)
      [] v.k = "inf"   -> <<"i","n","f">>
      [] v.k = "bool"  -> IF v.b THEN <<"T","r","u","e">> ELSE <<"F","a","l","s","e">>
      [] v.k = "none"  -> <<"N","o","n","e">>
      [] v.k = "list"  -> <<"[","'","x","'","]">>

(***************************************************************************)
(* float arithmetic used by the parsers: sum(nums) / len(nums), round()    *)
(***************************************************************************)
FAdd(a, b) ==
    IF a.k = "inf" \/ b.k = "inf" THEN PyInf
    ELSE Rat(a.n * b.d + b.n * a.d, a.d * b.d)

RECURSIVE FSum(_)
FSum(nums) == IF nums = <<>> THEN PyFloat(0, 1) ELSE FAdd(nums[1], FSum(Tail(nums)))

FDivInt(a, cnt) == IF a.k = "inf" THEN PyInf ELSE Rat(a.n, a.d * cnt)

Mean(nums) == FDivInt(FSum(nums), Len(nums))

Raise == [k |-> "raise"]

\* round(x) of a non-negative float: nearest integer, a tie goes to the even
\* neighbour (Python 3 round); round(inf) raises OverflowError
Round(x) ==
    IF x.k = "inf" THEN Raise
    ELSE LET q == x.n \div x.d
             r == x.n % x.d
         IN  IF 2 * r < x.d THEN PyInt(q)
             ELSE IF 2 * r > x.d THEN PyInt(q + 1)
             ELSE IF q % 2 = 0 THEN PyInt(q) ELSE PyInt(q + 1)

\* a <= x <= b for a float or int x
InRange(x, a, b) ==
    CASE x.k = "int"   -> a <= x.i /\ x.i <= b
      [] x.k = "float" -> a * x.d <= x.n /\ x.n <= b * x.d
      [] OTHER         -> FALSE

(***************************************************************************)
(* IntakeAgent._extract_first_number, _parse_int, _parse_float             *)
(***************************************************************************)
OutOfSep == <<" ","o","u","t"," ","o","f"," ">>
OrSep == <<" ","o","r"," ">>

\* end of the digit run that starts at position i
RECURSIVE RunEnd(_, _)
RunEnd(s, i) == IF i + 1 <= Len(s) /\ IsDigit(s[i + 1]) THEN RunEnd(s, i + 1) ELSE i

\* re.search(r"\d+\.?\d*", s).group(), or <<>> when there is no match
NumberMatch(s) ==
    IF \E i \in 1..Len(s) : IsDigit(s[i])
    THEN LET b  == CHOOSE i \in 1..Len(s) :
                      IsDigit(s[i]) /\ \A j \in 1..(i - 1) : ~IsDigit(s[j])
             e1 == RunEnd(s, b)
             e2 == IF e1 + 1 <= Len(s) /\ s[e1 + 1] = "." THEN RunEnd(s, e1 + 1) ELSE e1
         IN  SubSeq(s, b, e2)
    ELSE <<>>

extract_first_number(text) ==
    LET m == NumberMatch(text) IN IF m = <<>> THEN None ELSE FloatOfDecimal(m)

\* [self._extract_first_number(p) for p in parts] without the None entries
RECURSIVE FirstNumbers(_)
FirstNumbers(parts) ==
    IF parts = <<>> THEN <<>>
    ELSE LET x == extract_first_number(parts[1]) IN
         (IF x = None THEN <<>> ELSE <<x>>) \o FirstNumbers(Tail(parts))

\* p.strip().replace(".", "").isdigit()
IsBareNumber(p) == IsDigitStr(RemoveDots(Strip(p)))

\* float(p.strip()) raises ValueError on a second "."
FloatRaises(p) == Len(SelectSeq(Strip(p), LAMBDA ch : ch = ".")) > 1

\* [float(p.strip()) for p in parts if p.strip().replace(".", "").isdigit()]
RECURSIVE BareNumbers(_)
BareNumbers(parts) ==
    IF parts = <<>> THEN <<>>
    ELSE (IF IsBareNumber(parts[1]) THEN <<FloatOfDecimal(Strip(parts[1]))>> ELSE <<>>)
         \o BareNumbers(Tail(parts))

RangeRaises(parts) == \E i \in 1..Len(parts) : IsBareNumber(parts[i]) /\ FloatRaises(parts[i])

\* the part after the first separator instead of the part before it
KeepRight(s, sep) == IF Contains(s, sep) THEN Strip(Split(s, sep)[2]) ELSE s

\* s.split(sep)[0].strip() when sep occurs
KeepLeft(s, sep) == IF Contains(s, sep) THEN Strip(Split(s, sep)[1]) ELSE s

\* the "-" branch applies: "-" in s and not s.startswith("-"), the parts parse
\* without ValueError and at least one part is a bare number
RangeNums(s) ==
    IF Contains(s, <<"-">>) /\ s[1] # "-" /\ ~RangeRaises(Split(s, <<"-">>))
    THEN BareNumbers(Split(s, <<"-">>))
    ELSE <<>>

OrNums(s) == IF Contains(s, OrSep) THEN FirstNumbers(Split(s, OrSep)) ELSE <<>>

\* int(round(x)): OverflowError is not among the exceptions _parse_int catches
parse_int(value) ==
    LET s0 == Strip(Lower(StrOf(value)))
        s1 == KeepLeft(s0, OutOfSep)
        s2 == KeepLeft(s1, <<"/">>)
        m  == NumberMatch(s2)
    IN  IF OrNums(s1) # <<>> THEN Round(Mean(OrNums(s1)))
        ELSE IF RangeNums(s2) # <<>> THEN Round(Mean(RangeNums(s2)))
        ELSE IF m # <<>> THEN Round(FloatOfDecimal(m))
        ELSE None

parse_float(value) ==
    LET s0 == Strip(Lower(StrOf(value)))
        s1 == KeepLeft(s0, OutOfSep)
        m  == NumberMatch(s1)
    IN  IF OrNums(s1) # <<>> THEN Mean(OrNums(s1))
        ELSE IF RangeNums(s1) # <<>> THEN Mean(RangeNums(s1))
        ELSE IF m # <<>> THEN FloatOfDecimal(m)
        ELSE None

(***************************************************************************)
(* models/session.py: UserProfile, DailyCheckIn.  The profile fields the   *)
(* intake never touches (name, primary_goal, ...) are left out.            *)
(***************************************************************************)
ProfileFields == {"age", "sex", "height_cm", "weight_kg", "origin", "religion",
                  "dietary_preference"}
CheckinFields == {"sleep_hours", "water_glasses", "exercise_minutes", "exercise_type",
                  "mood_score", "stress_score", "energy_score", "social_hours",
                  "alcohol_units", "smoking_today"}
FieldNames == ProfileFields \cup CheckinFields

Omnivore == <<"o","m","n","i","v","o","r","e">>

UserProfile ==
    [f \in ProfileFields |-> IF f = "dietary_preference" THEN PyStr(Omnivore) ELSE None]
DailyCheckIn == [f \in CheckinFields |-> None]

is_complete(c) ==
    /\ c["sleep_hours"] # None
    /\ c["water_glasses"] # None
    /\ c["mood_score"] # None
    /\ c["energy_score"] # None
    /\ c["stress_score"] # None
    /\ c["exercise_minutes"] # None

\* a check-in that never reports a missing field
missing_fields_none(c) == <<>>

missing_fields(c) ==
    (IF c["sleep_hours"] = None THEN <<"sleep duration">> ELSE <<>>) \o
    (IF c["water_glasses"] = None THEN <<"water intake">> ELSE <<>>) \o
    (IF c["mood_score"] = None THEN <<"mood (1-5)">> ELSE <<>>) \o
    (IF c["energy_score"] = None THEN <<"energy level (1-5)">> ELSE <<>>) \o
    (IF c["stress_score"] = None THEN <<"stress level (1-5)">> ELSE <<>>) \o
    (IF c["exercise_minutes"] = None THEN <<"daily movement/exercise">> ELSE <<>>)

(***************************************************************************)
(* IntakeAgent._apply_updates.  The session part it works on is            *)
(* [p |-> profile, c |-> check-in, raised |-> an exception left the call]. *)
(***************************************************************************)
\* the ranges with sleep_hours checked against a full day
RangesSleep24 ==
    [sleep_hours |-> <<1, 24>>, water_glasses |-> <<0, 20>>, mood_score |-> <<1, 5>>,
     energy_score |-> <<1, 5>>, stress_score |-> <<1, 10>>, exercise_minutes |-> <<0, 300>>,
     social_hours |-> <<0, 24>>, alcohol_units |-> <<0, 20>>, age |-> <<10, 120>>,
     height_cm |-> <<100, 250>>, weight_kg |-> <<30, 300>>]

\* the inclusive range each numeric field is checked against
Ranges ==
    [sleep_hours |-> <<1, 12>>, water_glasses |-> <<0, 20>>, mood_score |-> <<1, 5>>,
     energy_score |-> <<1, 5>>, stress_score |-> <<1, 10>>, exercise_minutes |-> <<0, 300>>,
     social_hours |-> <<0, 24>>, alcohol_units |-> <<0, 20>>, age |-> <<10, 120>>,
     height_cm |-> <<100, 250>>, weight_kg |-> <<30, 300>>]

Male == <<"m","a","l","e">>
Female == <<"f","e","m","a","l","e">>
MaleWords == {Male, <<"m">>, <<"m","a","n">>}
FemaleWords == {Female, <<"f">>, <<"w","o","m","a","n">>}
ExerciseTypes == {<<"c","a","r","d","i","o">>, <<"s","t","r","e","n","g","t","h">>,
                  <<"b","o","t","h">>, <<"n","o","n","e">>}
DietaryPreferences == {<<"v","e","g","e","t","a","r","i","a","n">>, <<"v","e","g","a","n">>,
                       <<"p","e","s","c","a","t","a","r","i","a","n">>, Omnivore}
TrueWords == {<<"y","e","s">>, <<"t","r","u","e">>, <<"1">>}
FalseWords == {<<"n","o">>, <<"f","a","l","s","e">>, <<"0">>}

\* updates.get(key): AttributeError when updates is not a dict
IsDict(u) == u.k = "dict"
Get(u, key) == IF key \in DOMAIN u.m THEN u.m[key] ELSE None

\* c.<f> = val for a check-in field, session.profile.<f> = val for a profile field
Write(st, f, val) ==
    IF f \in CheckinFields THEN [st EXCEPT !.c[f] = val] ELSE [st EXCEPT !.p[f] = val]

\* the fields in the order the body of _apply_updates handles them
UpdateOrder ==
    <<"sleep_hours", "water_glasses", "mood_score", "energy_score", "stress_score",
      "exercise_minutes", "exercise_type", "social_hours", "alcohol_units",
      "smoking_today", "age", "sex", "height_cm", "weight_kg", "origin", "religion",
      "dietary_preference">>

FloatFields == {"sleep_hours", "social_hours", "height_cm", "weight_kg"}
IntFields == {"water_glasses", "mood_score", "energy_score", "stress_score",
              "exercise_minutes", "alcohol_units", "age"}

\* one numeric field, val the parser's answer: range check, write
NumStep(st, f, val) ==
    IF val = Raise THEN [st EXCEPT !.raised = TRUE]
    ELSE IF val # None /\ InRange(val, Ranges[f][1], Ranges[f][2])
    THEN Write(st, f, val)
    ELSE st

\* exercise_type and dietary_preference: str(x).lower().strip() in the vocabulary
VocabStep(st, f, val, vocab) ==
    IF val \in vocab THEN Write(st, f, PyStr(val)) ELSE st

SmokingStep(st, val) ==
    IF val.k = "bool" THEN Write(st, "smoking_today", val)
    ELSE IF Lower(StrOf(val)) \in TrueWords
    THEN Write(st, "smoking_today", PyBool(TRUE))
    ELSE IF Lower(StrOf(val)) \in FalseWords
    THEN Write(st, "smoking_today", PyBool(FALSE))
    ELSE st

SexStep(st, val) ==
    IF val \in MaleWords THEN Write(st, "sex", PyStr(Male))
    ELSE IF val \in FemaleWords THEN Write(st, "sex", PyStr(Female))
    ELSE st

\* the if-block of _apply_updates for field f
FieldStep(st, u, f) ==
    IF Get(u, f) = None THEN st
    ELSE CASE f \in FloatFields -> NumStep(st, f, parse_float(Get(u, f)))
           [] f \in IntFields   -> NumStep(st, f, parse_int(Get(u, f)))
           [] f = "exercise_type" ->
                VocabStep(st, f, Strip(Lower(StrOf(Get(u, f)))), ExerciseTypes)
           [] f = "dietary_preference" ->
                VocabStep(st, f, Strip(Lower(StrOf(Get(u, f)))), DietaryPreferences)
           [] f = "smoking_today" -> SmokingStep(st, Get(u, f))
           [] f = "sex" -> SexStep(st, Strip(Lower(StrOf(Get(u, f)))))
           \* origin, religion: str(x).strip(), no validation
           [] OTHER -> Write(st, f, PyStr(Strip(StrOf(Get(u, f)))))

\* the blocks from the i-th on; an exception leaves the call at once
RECURSIVE ApplyFrom(_, _, _)
ApplyFrom(st, u, i) ==
    IF i > Len(UpdateOrder) \/ st.raised THEN st
    ELSE ApplyFrom(FieldStep(st, u, UpdateOrder[i]), u, i + 1)

apply_updates(profile, checkin, updates) ==
    IF ~IsDict(updates) THEN [p |-> profile, c |-> checkin, raised |-> TRUE]
    ELSE ApplyFrom([p |-> profile, c |-> checkin, raised |-> FALSE], updates, 1)

(***************************************************************************)
(* ISSUE_METRICS, IntakeAgent._is_collected, _has_enough_data              *)
(***************************************************************************)
ISSUE_METRICS ==
    [emotional |-> <<"stress_score", "mood_score", "sleep_hours", "social_hours", "exercise_minutes", "exercise_type", "energy_score", "water_glasses", "alcohol_units", "smoking_today">>,
     mental_fatigue |-> <<"sleep_hours", "stress_score", "water_glasses", "mood_score", "energy_score", "exercise_minutes", "social_hours", "alcohol_units", "smoking_today">>,
     physical_fatigue |-> <<"sleep_hours", "energy_score", "exercise_minutes", "exercise_type", "water_glasses", "stress_score", "mood_score", "social_hours", "alcohol_units", "smoking_today">>,
     sleep_issues |-> <<"sleep_hours", "stress_score", "exercise_minutes", "exercise_type", "alcohol_units", "mood_score", "energy_score", "water_glasses", "social_hours", "smoking_today">>,
     general_wellness |-> <<"sleep_hours", "water_glasses", "mood_score", "energy_score", "stress_score", "exercise_minutes", "exercise_type", "social_hours", "alcohol_units", "smoking_today">>,
     build_plan |-> <<"age", "sex", "height_cm", "weight_kg", "sleep_hours", "water_glasses", "mood_score", "energy_score", "stress_score", "exercise_minutes", "exercise_type", "social_hours", "alcohol_units", "smoking_today", "dietary_preference", "origin", "religion">>]

Categories == DOMAIN ISSUE_METRICS

is_collected(profile, checkin, metric) ==
    IF metric = "dietary_preference" THEN profile[metric] # PyStr(Omnivore)
    ELSE IF metric \in ProfileFields THEN profile[metric] # None
    ELSE IF metric \in CheckinFields THEN checkin[metric] # None
    ELSE FALSE

\* the count the loop of _has_enough_data accumulates
RECURSIVE collected(_, _, _)
collected(profile, checkin, metrics) ==
    IF metrics = <<>> THEN 0
    ELSE (IF is_collected(profile, checkin, metrics[1]) THEN 1 ELSE 0)
         + collected(profile, checkin, Tail(metrics))

\* the threshold without its floor of 8
threshold_without_floor(metrics) == (Len(metrics) * 75) \div 100

\* max(8, int(len(self.relevant_metrics) * 0.75)): int() truncates
threshold(metrics) ==
    LET t == (Len(metrics) * 75) \div 100 IN IF t > 8 THEN t ELSE 8

\* the completion check that ignores the active list
has_enough_data_mandatory_only(relevant_metrics, profile, checkin) == is_complete(checkin)

\* relevant_metrics is None (or empty) when no list is active
has_enough_data(relevant_metrics, profile, checkin) ==
    IF relevant_metrics = None THEN is_complete(checkin)
    ELSE collected(profile, checkin, relevant_metrics.l) >= threshold(relevant_metrics.l)

(***************************************************************************)
(* ISSUE_KEYWORDS and IntakeAgent._classify_issue                          *)
(***************************************************************************)
ISSUE_KEYWORDS ==
    [mental_fatigue |-> <<
        <<"b","r","a","i","n"," ","f","o","g">>,
        <<"c","a","n","'","t"," ","f","o","c","u","s">>,
        <<"m","e","n","t","a","l","l","y"," ","t","i","r","e","d">>,
        <<"c","a","n","'","t"," ","t","h","i","n","k">>,
        <<"c","o","n","c","e","n","t","r","a","t","i","o","n">>,
        <<"d","i","s","t","r","a","c","t","e","d">>,
        <<"f","o","g","g","y">>,
        <<"m","e","n","t","a","l">>
      >>,
     emotional |-> <<
        <<"s","a","d">>,
        <<"a","n","x","i","o","u","s">>,
        <<"d","e","p","r","e","s","s","e","d">>,
        <<"d","o","w","n">>,
        <<"w","o","r","r","i","e","d">>,
        <<"s","t","r","e","s","s","e","d"," ","o","u","t">>,
        <<"o","v","e","r","w","h","e","l","m","e","d">>,
        <<"u","p","s","e","t">>,
        <<"l","o","n","e","l","y">>
      >>,
     physical_fatigue |-> <<
        <<"l","e","t","h","a","r","g","i","c">>,
        <<"s","l","u","g","g","i","s","h">>,
        <<"n","o"," ","e","n","e","r","g","y">>,
        <<"e","x","h","a","u","s","t","e","d">>,
        <<"p","h","y","s","i","c","a","l","l","y"," ","t","i","r","e","d">>,
        <<"w","e","a","k">>,
        <<"d","r","a","i","n","e","d">>,
        <<"f","a","t","i","g","u","e","d">>
      >>,
     sleep_issues |-> <<
        <<"c","a","n","'","t"," ","s","l","e","e","p">>,
        <<"i","n","s","o","m","n","i","a">>,
        <<"r","e","s","t","l","e","s","s">>,
        <<"w","a","k","i","n","g"," ","u","p">>,
        <<"s","l","e","e","p"," ","p","r","o","b","l","e","m","s">>,
        <<"t","i","r","e","d"," ","b","u","t"," ","c","a","n","'","t"," ","s","l","e","e","p">>
      >>]

\* the order in which the dict ISSUE_KEYWORDS is iterated
KeywordOrder == <<"mental_fatigue", "emotional", "physical_fatigue", "sleep_issues">>

good_keywords == {<<"g","o","o","d">>, <<"g","r","e","a","t">>, <<"f","i","n","e">>,
                  <<"o","k","a","y">>, <<"w","e","l","l">>, <<"a","m","a","z","i","n","g">>,
                  <<"f","a","n","t","a","s","t","i","c">>}

\* issue_type and relevant_metrics as the agent holds them
IssueName(name) == [k |-> "name", s |-> name]
Metrics(list) == [k |-> "metrics", l |-> list]

\* the texts of all messages, whoever wrote them
RECURSIVE AllTextsLower(_)
AllTextsLower(history) ==
    IF history = <<>> THEN <<>>
    ELSE <<Lower(history[1].content.c)>> \o AllTextsLower(Tail(history))

\* [m["content"].lower() for m in session.history if m["role"] == "user"]
RECURSIVE UserTextsLower(_)
UserTextsLower(history) ==
    IF history = <<>> THEN <<>>
    ELSE (IF history[1].role = "user" THEN <<Lower(history[1].content.c)>> ELSE <<>>)
         \o UserTextsLower(Tail(history))

\* sum(1 for kw in keywords if kw in text)
matches(keywords, text) ==
    Cardinality({i \in 1..Len(keywords) : Contains(text, keywords[i])})

\* the keys of issue_scores, in insertion order
issue_scores(text) ==
    SelectSeq(KeywordOrder, LAMBDA cat : matches(ISSUE_KEYWORDS[cat], text) > 0)

classify_issue(history) ==
    LET text   == JoinSpace(UserTextsLower(history))
        scores == issue_scores(text)
        general == [issue_type |-> IssueName("general_wellness"),
                    relevant_metrics |-> Metrics(ISSUE_METRICS["general_wellness"])]
    IN  IF Len(scores) >= 2 THEN general
        ELSE IF Len(scores) = 1
        THEN [issue_type |-> IssueName(scores[1]),
              relevant_metrics |-> Metrics(ISSUE_METRICS[scores[1]])]
        ELSE IF \E kw \in good_keywords : Contains(text, kw) THEN general
        ELSE general

(***************************************************************************)
(* IntakeAgent._fallback                                                   *)
(***************************************************************************)
Text(str) == [k |-> "text", s |-> str]

replies ==
    <<"I hear you. To help you best, how many hours of sleep did you get last night?",
      "That sounds tough. Let's check your basics. How is your energy level right now (1-5)?",
      "Got it. Quick check: How much water have you had today?">>

questions ==
    [sleep_hours |-> "How'd you sleep last night?",
     water_glasses |-> "Have you been drinking enough water today?",
     mood_score |-> "How are you feeling overall?",
     energy_score |-> "Energy levels holding up?",
     stress_score |-> "Stress been manageable lately?",
     exercise_minutes |-> "Get any movement in today?"]

\* len([m for m in session.history if m['role'] == 'user'])
UserTurns(history) == Len(SelectSeq(history, LAMBDA m : m.role = "user"))

\* _fallback with its opening questions on the first user turn only
fallback_opening_first_turn_only(history, checkin, rnd) ==
    LET turn    == UserTurns(history)
        missing == missing_fields(checkin)
    IN  IF turn <= 1
        THEN [status |-> "CONTINUE",
              reply |-> Text(replies[((rnd - 1) % Len(replies)) + 1]),
              extracted_updates |-> [k |-> "dict", m |-> <<>>]]
        ELSE IF missing = <<>>
        THEN [status |-> "COMPLETE", reply |-> None,
              extracted_updates |-> [k |-> "dict", m |-> <<>>]]
        ELSE [status |-> "CONTINUE", reply |-> Text("How are things going?"),
              extracted_updates |-> [k |-> "dict", m |-> <<>>]]

\* rnd is the draw of random.choice: any index of the list it picks from
fallback(history, checkin, rnd) ==
    LET turn    == UserTurns(history)
        missing == missing_fields(checkin)
        field   == missing[((rnd - 1) % Len(missing)) + 1]
    IN  IF turn <= 2
        THEN [status |-> "CONTINUE",
              reply |-> Text(replies[((rnd - 1) % Len(replies)) + 1]),
              extracted_updates |-> [k |-> "dict", m |-> <<>>]]
        ELSE IF missing = <<>>
        THEN [status |-> "COMPLETE", reply |-> None,
              extracted_updates |-> [k |-> "dict", m |-> <<>>]]
        ELSE [status |-> "CONTINUE",
              reply |-> Text(IF field \in DOMAIN questions THEN questions[field]
                             ELSE "How are things going?"),
              extracted_updates |-> [k |-> "dict", m |-> <<>>]]

(***************************************************************************)
(* IntakeAgent.run_conversation.  The extraction service answers with      *)
(*   [k |-> "raise"]      generate_content or json.loads raises            *)
(*   [k |-> "nonrecord"]  the JSON text is not an object                   *)
(*   [k |-> "record", issue_type, extracted, status, reply]                *)
(* where a key the object does not have is Missing.                        *)
(***************************************************************************)
Missing == [k |-> "missing"]
EmptyDict == [k |-> "dict", m |-> <<>>]
Dict(map) == [k |-> "dict", m |-> map]

ModeA == {<<"A">>, <<"Q","U","I","C","K"," ","C","H","E","C","K">>, <<"Q","U","I","C","K">>}
ModeB == {<<"B">>, <<"D","E","E","P"," ","D","I","V","E">>, <<"D","E","E","P">>,
          <<"E","D","U","C","A","T","E">>, <<"E","D","U","C","A","T","I","O","N">>}
ModeC == {<<"C">>, <<"B","U","I","L","D"," ","P","L","A","N">>, <<"P","L","A","N">>,
          <<"B","U","I","L","D">>}
JourneyMode(name) == [k |-> "mode", s |-> name]

\* bool(x) of a service value
Truthy(v) ==
    CASE v.k = "none"    -> FALSE
      [] v.k = "missing" -> FALSE
      [] v.k = "name"    -> v.s # ""
      [] OTHER           -> TRUE

\* journey mode selection (lines 132-143)
select_journey_mode(st) ==
    IF st.journey_mode = None /\ st.history # <<>>
    THEN [st EXCEPT !.journey_mode =
             IF Upper(Strip(st.history[Len(st.history)].content.c)) \in ModeA
             THEN JourneyMode("QUICK_CHECK")
             ELSE IF Upper(Strip(st.history[Len(st.history)].content.c)) \in ModeB
             THEN JourneyMode("DEEP_DIVE")
             ELSE IF Upper(Strip(st.history[Len(st.history)].content.c)) \in ModeC
             THEN JourneyMode("BUILD_PLAN")
             ELSE st.journey_mode]
    ELSE st

\* classification before the service call (lines 145-153)
classify_if_needed(st) ==
    IF st.issue_type = None /\ Len(st.history) >= 2
    THEN IF st.journey_mode = JourneyMode("BUILD_PLAN")
         THEN [st EXCEPT !.issue_type = IssueName("build_plan"),
                         !.relevant_metrics = Metrics(ISSUE_METRICS["build_plan"])]
         ELSE [st EXCEPT !.issue_type = classify_issue(st.history).issue_type,
                         !.relevant_metrics = classify_issue(st.history).relevant_metrics]
    ELSE st

CompleteChars == <<"C","O","M","P","L","E","T","E">>

\* except Exception: return self._fallback(session)
failed(b, rnd) ==
    [b EXCEPT !.result = fallback(b.history, b.checkin, rnd), !.path = "except"]

\* llm_issue = result.get("issue_type") is taken when truthy and none is set yet
takes_issue_type(a, response) == Truthy(response.issue_type) /\ a.issue_type = None

\* self.issue_type = llm_issue; self.relevant_metrics = ISSUE_METRICS.get(...)
take_issue_type(a, response) ==
    IF ~takes_issue_type(a, response) THEN a
    ELSE [a EXCEPT !.issue_type = response.issue_type,
                   !.relevant_metrics =
                       IF response.issue_type.k = "name" /\ response.issue_type.s \in Categories
                       THEN Metrics(ISSUE_METRICS[response.issue_type.s])
                       ELSE Metrics(ISSUE_METRICS["general_wellness"])]

\* updates = result.get("extracted", {})
extracted(response) ==
    IF response.extracted = Missing THEN EmptyDict ELSE response.extracted

\* result.get("status", "CONTINUE").upper() == "COMPLETE"
signals_complete(response) ==
    /\ response.k = "record"
    /\ response.status.k = "str"
    /\ Upper(response.status.c) = CompleteChars

\* the two returns of the try block
respond(c, payload, response) ==
    IF has_enough_data(c.relevant_metrics, c.profile, c.checkin)
       \/ signals_complete(response)
    THEN [c EXCEPT !.result = [status |-> "COMPLETE", reply |-> None,
                               extracted_updates |-> payload,
                               issue_type |-> c.issue_type],
                   !.path = "service"]
    ELSE [c EXCEPT !.result = [status |-> "CONTINUE",
                               reply |-> IF response.reply = Missing
                                         THEN Text("Tell me more.")
                                         ELSE response.reply,
                               extracted_updates |-> payload,
                               issue_type |-> c.issue_type],
                   !.path = "service"]

\* the rest of the try block once _apply_updates has acted (ap is its outcome)
after_updates(b, ap, payload, response, rnd) ==
    IF ap.raised \/ (response.status # Missing /\ response.status.k # "str")
    THEN failed([b EXCEPT !.profile = ap.p, !.checkin = ap.c], rnd)
    ELSE respond([b EXCEPT !.profile = ap.p, !.checkin = ap.c], payload, response)

\* the try block from the service's answer on; ISSUE_METRICS.get raises
\* TypeError on an unhashable key, after self.issue_type was assigned
with_response(a, response, rnd) ==
    IF response.k # "record" THEN failed(a, rnd)
    ELSE IF takes_issue_type(a, response) /\ response.issue_type.k = "list"
    THEN failed([a EXCEPT !.issue_type = response.issue_type], rnd)
    ELSE after_updates([take_issue_type(a, response) EXCEPT !.updates = extracted(response)],
                       apply_updates(a.profile, a.checkin, extracted(response)),
                       extracted(response), response, rnd)

\* the state run_conversation leaves and the record it returns; path names
\* the return statement taken
run_conversation(has_model, st, response, rnd) ==
    IF ~has_model
    THEN [st EXCEPT !.result = fallback(st.history, st.checkin, rnd), !.path = "no_model"]
    ELSE with_response(classify_if_needed(select_journey_mode(st)), response, rnd)

(***************************************************************************)
(* The session machine: NiravaSystem (adk_main.py) driving one session.    *)
(***************************************************************************)
VARIABLES
    has_model,         \* IntakeAgent.model is not None (fixed at construction)
    history,           \* session.history
    profile,           \* session.profile
    checkin,           \* session.current_checkin
    journey_mode,      \* session.journey_mode
    issue_type,        \* IntakeAgent.issue_type
    relevant_metrics,  \* IntakeAgent.relevant_metrics
    phase,             \* NiravaSystem.phase
    sys_issue_type,    \* NiravaSystem.issue_type
    stored,            \* the Session record of the session service
    response,          \* what the extraction service answered in the last turn
    updates,           \* the payload _apply_updates was last called with
    signalled,         \* the service has answered with status COMPLETE in this session
    result,            \* what run_conversation returned in the last turn
    path,              \* the return statement run_conversation took
    ret                \* what process returned (Raise: it raised)

vars == <<has_model, history, profile, checkin, journey_mode, issue_type,
          relevant_metrics, phase, sys_issue_type, stored, response, updates, signalled,
          result, path, ret>>

\* ---- bounded inputs ----
MaxTurns == 3

UserTexts == {<<"c">>, <<"F","e","e","l","i","n","g"," ","s","a","d">>}

\* the six mandatory check-in facts, each in a form the parsers accept
PayloadMandatory ==
    Dict([sleep_hours |-> PyStr(<<"5","-","6">>), water_glasses |-> PyInt(8),
          mood_score |-> PyInt(4), energy_score |-> PyStr(<<"3","/","5">>),
          stress_score |-> PyStr(<<"8"," ","o","u","t"," ","o","f"," ","1","0">>),
          exercise_minutes |-> PyInt(30)])
\* two more facts of every list
PayloadTwo ==
    Dict([exercise_type |-> PyStr(<<"C","a","r","d","i","o">>),
          social_hours |-> PyFloat(3, 2), mood_score |-> None])
\* profile facts
PayloadProfile ==
    Dict([age |-> PyInt(28), sex |-> PyStr(<<"F">>),
          height_cm |-> PyStr(<<"1","6","5"," ","c","m">>), weight_kg |-> PyInt(60),
          origin |-> PyStr(<<"I","n","d","i","a">>), religion |-> PyStr(<<" ","n","o","n","e"," ">>),
          dietary_preference |-> PyStr(<<"V","e","g","a","n">>)])
\* rejected values next to an accepted one
PayloadRejected ==
    Dict([sleep_hours |-> PyStr(<<"t","h","i","r","t","y">>), water_glasses |-> PyInt(25),
          smoking_today |-> PyBool(FALSE), sex |-> PyStr(<<"x">>)])
\* an accepted value followed by a digit run float() turns into inf
PayloadHuge ==
    Dict([sleep_hours |-> PyInt(7), age |-> PyStr(<<HugeRun>>), sex |-> PyStr(<<"m">>)])
PayloadSleep == Dict([sleep_hours |-> PyInt(7)])

Record(it, ex, stat, rep) ==
    [k |-> "record", issue_type |-> it, extracted |-> ex, status |-> stat, reply |-> rep]

Continue == PyStr(<<"C","O","N","T","I","N","U","E">>)

ServiceResponses ==
    { [k |-> "raise"],
      [k |-> "nonrecord"],
      Record(None, PayloadMandatory, Continue, Text("How much water have you had?")),
      Record(IssueName("emotional"), PayloadMandatory, Missing, Missing),
      Record(Missing, PayloadTwo, Continue, None),
      Record(IssueName("nutrition"), PayloadRejected, PyStr(<<"c","o","n","t","i","n","u","e">>), Text("")),
      Record(PyList, PayloadSleep, Continue, Text("ok")),
      Record(None, PayloadSleep, None, Text("ok")),
      Record(IssueName(""), PayloadHuge, Continue, Text("ok")),
      Record(None, PyList, Continue, Text("ok")),
      Record(None, Missing, PyStr(<<"c","o","m","p","l","e","t","e">>), Text("done")),
      Record(IssueName("sleep_issues"), PayloadProfile, Continue, Text("ok")) }

NoResponse == [k |-> "absent"]

\* the indices random.choice can draw in _fallback for this session
RandomDraws(hist, chk) ==
    IF UserTurns(hist) <= 2 THEN 1..Len(replies)
    ELSE IF missing_fields(chk) = <<>> THEN {1}
    ELSE 1..Len(missing_fields(chk))

PipelineOutcomes == {"ok", "error"}

\* ---- session service ----
\* InMemorySessionService.create_session: Session(profile={"name": "Friend", "age": 30})
create_session ==
    [phase |-> "INTAKE", issue_type |-> None, profile |-> [age |-> PyInt(30)],
     checkin |-> <<>>, history |-> <<>>]

MandatoryFields == {"sleep_hours", "water_glasses", "mood_score", "energy_score",
                    "stress_score", "exercise_minutes"}

\* NiravaSystem._persist_session
persist_session(sess, ph, it, hist, chk) ==
    [sess EXCEPT !.phase = ph, !.issue_type = it, !.history = hist,
                 !.checkin = [f \in MandatoryFields |-> chk[f]]]

\* ContextEngine.should_compact evaluates len(m.get("content", "")) of every message
should_compact_raises(hist) == \E i \in 1..Len(hist) : hist[i].content = None

fallback_reply ==
    Text("I encountered an issue analyzing your data, but here's what I can suggest: ...")
coach_reply == Text("Your health plan is ready.")

Init ==
    /\ has_model \in BOOLEAN
    /\ history = <<>>
    /\ profile = UserProfile
    /\ checkin = DailyCheckIn
    /\ journey_mode = None
    /\ issue_type = None
    /\ relevant_metrics = None
    /\ phase = "INTAKE"
    /\ sys_issue_type = None
    /\ stored = create_session
    /\ response = NoResponse
    /\ updates = NoResponse
    /\ signalled = FALSE
    /\ result = None
    /\ path = "start"
    /\ ret = None

Session(hist) ==
    [history |-> hist, profile |-> profile, checkin |-> checkin,
     journey_mode |-> journey_mode, issue_type |-> issue_type,
     relevant_metrics |-> relevant_metrics, updates |-> NoResponse,
     result |-> result, path |-> path]

\* NiravaSystem.process(user_text)
process(user_text, resp, rnd, pipe) ==
    LET h1 == Append(history, [role |-> "user", content |-> PyStr(user_text)]) IN
    IF should_compact_raises(h1)
    THEN /\ history' = h1
         /\ ret' = Raise
         /\ path' = "not_run"
         /\ response' = NoResponse
         /\ updates' = NoResponse
         /\ UNCHANGED <<has_model, profile, checkin, journey_mode, issue_type,
                        relevant_metrics, phase, sys_issue_type, stored, signalled,
                        result>>
    ELSE
    \E r \in {run_conversation(has_model, Session(h1), resp, rnd)} :
    LET sit == IF "issue_type" \in DOMAIN r.result /\ Truthy(r.result.issue_type)
               THEN r.result.issue_type ELSE sys_issue_type
        continues == phase = "INTAKE" /\ r.result.status = "CONTINUE"
        ph  == IF continues THEN phase ELSE "ANALYSIS"
        reply == IF continues THEN r.result.reply
                 ELSE IF pipe = "ok" THEN coach_reply ELSE fallback_reply
        h2  == Append(h1, [role |-> "model", content |-> reply])
    IN  /\ profile' = r.profile
        /\ checkin' = r.checkin
        /\ journey_mode' = r.journey_mode
        /\ issue_type' = r.issue_type
        /\ relevant_metrics' = r.relevant_metrics
        /\ result' = r.result
        /\ path' = r.path
        /\ response' = resp
        /\ updates' = r.updates
        /\ signalled' = (signalled \/ signals_complete(resp))
        /\ sys_issue_type' = sit
        /\ phase' = ph
        /\ history' = h2
        /\ ret' = reply
        /\ stored' = IF continues \/ pipe = "ok"
                     THEN persist_session(stored, ph, sit, h2, r.checkin)
                     ELSE stored
        /\ UNCHANGED has_model

\* The draw and the pipeline outcome are enumerated only on the turns whose
\* code consults them (the fallback's random.choice, _run_pipeline).
Process ==
    /\ UserTurns(history) < MaxTurns
    /\ \E user_text \in UserTexts :
       \E resp \in (IF has_model THEN ServiceResponses ELSE {NoResponse}) :
       \E probe \in {run_conversation(has_model,
                        Session(Append(history, [role |-> "user", content |-> PyStr(user_text)])),
                        resp, 1)} :
       \E rnd \in (IF probe.path \in {"no_model", "except"}
                   THEN RandomDraws(probe.history, probe.checkin) ELSE {1}) :
       \E pipe \in (IF phase = "INTAKE" /\ probe.result.status = "CONTINUE"
                    THEN {"ok"} ELSE PipelineOutcomes) :
          process(user_text, resp, rnd, pipe)

Next == Process

Spec == Init /\ [][Next]_vars

(***************************************************************************)
(* Properties of the session machine (Spec)                                *)
(***************************************************************************)
\* a turn of run_conversation has been taken and its record is in result
TurnTaken == path \in {"no_model", "except", "service"}

ResultFields == {"status", "reply", "extracted_updates", "issue_type"}

\* C1: whatever the extraction service does, the record run_conversation
\* returns has the four fields status, reply, extracted_updates and
\* issue_type, with status CONTINUE or COMPLETE; results of the fallback
\* responder included.
C1_ResultHasAllFourFields ==
    TurnTaken =>
        /\ DOMAIN result = ResultFields
        /\ result.status \in {"CONTINUE", "COMPLETE"}

\* C2: on a turn whose service call fails and whose result is the fallback's,
\* no profile field, no check-in field and no issue_type changes.
C2_FailedCallNotApplied ==
    [][path' = "except" =>
          /\ profile' = profile
          /\ checkin' = checkin
          /\ issue_type' = issue_type]_vars

\* the table entry for an issue_type, None when the table has none
TableEntry(it) ==
    IF it.k = "name" /\ it.s \in Categories THEN Metrics(ISSUE_METRICS[it.s]) ELSE None

\* C3: once issue_type is non-null, neither it nor the active priority list
\* changes again, and the active list is the table entry for issue_type.
C3_IssueTypeStickyAndListFromTable ==
    [][/\ issue_type # None =>
             (issue_type' = issue_type /\ relevant_metrics' = relevant_metrics)
       /\ issue_type' # None =>
             (TableEntry(issue_type') # None /\ relevant_metrics' = TableEntry(issue_type'))]_vars

\* collected(L) >= threshold(L) for the active list, false without a list
ListSatisfied ==
    /\ relevant_metrics # None
    /\ collected(profile, checkin, relevant_metrics.l) >= threshold(relevant_metrics.l)

CeilThreshold(n) == IF (3 * n + 3) \div 4 > 8 THEN (3 * n + 3) \div 4 ELSE 8

\* C5: the threshold the completion check uses for the active list L is
\* max(8, ceil(0.75 * len(L))).
C5_ThresholdIsCeil ==
    relevant_metrics # None =>
        threshold(relevant_metrics.l) = CeilThreshold(Len(relevant_metrics.l))

\* the facts collected so far: the fields of the profile and the check-in that
\* count as collected
FactsCollected == Cardinality({f \in FieldNames : is_collected(profile, checkin, f)})

PayloadOmnivore == Dict([dietary_preference |-> PyStr(<<"O","m","n","i","v","o","r","e">>)])
\* every value on a bound of its range, or a word of its vocabulary
PayloadBounds ==
    Dict([sleep_hours |-> PyInt(12), water_glasses |-> PyInt(0),
          mood_score |-> PyStr(<<"4",".","5">>), energy_score |-> PyInt(1),
          stress_score |-> PyInt(10), exercise_minutes |-> PyInt(300),
          exercise_type |-> PyStr(<<" ","N","o","n","e"," ">>), social_hours |-> PyInt(24),
          alcohol_units |-> PyInt(20), smoking_today |-> PyStr(<<"Y","e","s">>),
          age |-> PyStr(<<"1","0">>), sex |-> PyStr(<<" ","W","o","m","a","n">>), height_cm |-> PyInt(250),
          weight_kg |-> PyFloat(30, 1)])
\* every value just outside its range, or outside its vocabulary
PayloadBeyond ==
    Dict([sleep_hours |-> PyStr(<<"1","2",".","5">>), water_glasses |-> PyInt(21),
          mood_score |-> PyStr(<<"5",".","5">>), energy_score |-> PyInt(0),
          stress_score |-> PyInt(11), exercise_minutes |-> PyInt(301),
          exercise_type |-> PyStr(<<"y","o","g","a">>), social_hours |-> PyStr(<<"2","4",".","5">>),
          alcohol_units |-> PyInt(21), smoking_today |-> PyStr(<<"m","a","y","b","e">>),
          age |-> PyInt(9), sex |-> PyStr(<<"x">>), height_cm |-> PyFloat(199, 2),
          weight_kg |-> PyInt(301), dietary_preference |-> PyStr(<<"k","e","t","o">>)])
\* a negative count
PayloadNegative == Dict([water_glasses |-> PyInt(-2)])
\* for every numeric field a negative number, and for every numeric field a
\* text that starts with "-"
NegativePayloads ==
    { Dict([sleep_hours |-> PyFloat(-11, 2), water_glasses |-> PyInt(-8),
            mood_score |-> PyFloat(-7, 2), energy_score |-> PyInt(-6),
            stress_score |-> PyInt(-11), exercise_minutes |-> PyInt(-30),
            social_hours |-> PyFloat(-1, 100000), alcohol_units |-> PyInt(-20),
            age |-> PyInt(-28), height_cm |-> PyInt(-165), weight_kg |-> PyFloat(-60, 1)]),
      Dict([sleep_hours |-> PyStr(<<"-","5",".","5">>), water_glasses |-> PyStr(<<"-","8"," ","g","l","a","s","s","e","s">>),
            mood_score |-> PyStr(<<"-","4","/","5">>), energy_score |-> PyStr(<<"-","5"," ","o","r"," ","6">>),
            stress_score |-> PyStr(<<"-","1","1"," ","o","u","t"," ","o","f"," ","1","0">>), exercise_minutes |-> PyStr(<<" ","-","3","0">>),
            social_hours |-> PyStr(<<"-","1","e","-","0","5">>), alcohol_units |-> PyStr(<<"-"," ","2","0">>),
            age |-> PyStr(<<"-","-","2","8">>), height_cm |-> PyStr(<<"-","1","6","5","-","1","6","6">>), weight_kg |-> PyStr(<<"-","6","0">>)]) }

Payloads ==
    {PayloadMandatory, PayloadTwo, PayloadProfile, PayloadRejected, PayloadHuge,
     PayloadSleep, PayloadOmnivore, PayloadBounds, PayloadBeyond, PayloadNegative, PyList}
    \cup NegativePayloads

InitApply ==
    /\ has_model = TRUE
    /\ history = <<>>
    /\ profile = UserProfile
    /\ checkin = DailyCheckIn
    /\ journey_mode = None
    /\ \E c \in Categories :
          /\ issue_type = IssueName(c)
          /\ relevant_metrics = Metrics(ISSUE_METRICS[c])
    /\ phase = "INTAKE"
    /\ sys_issue_type = None
    /\ stored = create_session
    /\ response = NoResponse
    /\ updates = NoResponse
    /\ signalled = FALSE
    /\ result = None
    /\ path = "start"
    /\ ret = None

\* self._apply_updates(session, u)
ApplyUpdates ==
    \E u \in Payloads :
    \E ap \in {apply_updates(profile, checkin, u)} :
       /\ profile' = ap.p
       /\ checkin' = ap.c
       /\ updates' = u
       /\ ret' = IF ap.raised THEN Raise ELSE None
       /\ path' = "applied"
       /\ UNCHANGED <<has_model, history, journey_mode, issue_type, relevant_metrics,
                      phase, sys_issue_type, stored, response, signalled, result>>

NextApply == ApplyUpdates

SpecApply == InitApply /\ [][NextApply]_vars

(***************************************************************************)
(* _classify_issue on its own: one call on any conversation of at most     *)
(* MaxMessages messages (SpecClassify).                                    *)
(***************************************************************************)
MaxMessages == 3

ClassifyTexts ==
    {<<"F","e","e","l","i","n","g"," ","S","A","D">>, <<"B","r","a","i","n"," ","f","o","g">>, <<"n","o">>, <<"e","n","e","r","g","y">>, <<"g","r","e","a","t">>}

\* user and agent turns with the texts of ClassifyTexts, and the user turns
\* "I'm stressed" and "can't focus at work"
Messages ==
    {[role |-> r, content |-> PyStr(t)] : r \in {"user", "model"}, t \in ClassifyTexts}
    \cup
    {[role |-> "user", content |-> PyStr(t)] :
        t \in {<<"I","'","m"," ","s","t","r","e","s","s","e","d">>,
               <<"c","a","n","'","t"," ","f","o","c","u","s"," ","a","t"," ","w","o","r","k">>}}

RECURSIVE Conversations(_)
Conversations(n) ==
    IF n = 0 THEN {<<>>}
    ELSE Conversations(n - 1) \cup
         {Append(h, m) : h \in {g \in Conversations(n - 1) : Len(g) = n - 1}, m \in Messages}

InitClassify ==
    /\ has_model = TRUE
    /\ history \in Conversations(MaxMessages)
    /\ profile = UserProfile
    /\ checkin = DailyCheckIn
    /\ journey_mode = None
    /\ issue_type = None
    /\ relevant_metrics = None
    /\ phase = "INTAKE"
    /\ sys_issue_type = None
    /\ stored = create_session
    /\ response = NoResponse
    /\ updates = NoResponse
    /\ signalled = FALSE
    /\ result = None
    /\ path = "start"
    /\ ret = None

\* self._classify_issue(session)
ClassifyIssue ==
    /\ path = "start"
    /\ issue_type' = classify_issue(history).issue_type
    /\ relevant_metrics' = classify_issue(history).relevant_metrics
    /\ path' = "classified"
    /\ UNCHANGED <<has_model, history, profile, checkin, journey_mode, phase,
                   sys_issue_type, stored, response, updates, signalled, result, ret>>

NextClassify == ClassifyIssue

SpecClassify == InitClassify /\ [][NextClassify]_vars

(***************************************************************************)
(* Properties of _apply_updates (SpecApply)                                *)
(***************************************************************************)
\* C7: for the fixed active list L, over any sequence of applied payloads,
\* collected(L) never decreases (payloads that set dietary_preference to a
\* value of its vocabulary included).
C7_CollectedNeverDecreases ==
    [][collected(profile', checkin', relevant_metrics.l)
          >= collected(profile, checkin, relevant_metrics.l)]_vars

\* an unset field, or an int within a..b
IntWithin(v, a, b) == v = None \/ (v.k = "int" /\ a <= v.i /\ v.i <= b)
\* an unset field, or a finite float within a..b
FloatWithin(v, a, b) == v = None \/ (v.k = "float" /\ a * v.d <= v.n /\ v.n <= b * v.d)
\* an unset field, or one of the words
WordWithin(v, words) == v = None \/ (v.k = "str" /\ v.c \in words)

\* C8: after any sequence of _apply_updates calls on a fresh session, every
\* set field lies in its declared domain: sleep_hours in [1,12], stress_score
\* in [1,10], mood_score and energy_score in [1,5], water_glasses in [0,20],
\* exercise_minutes in [0,300], alcohol_units in [0,20], social_hours in
\* [0,24], age in [10,120], height_cm in [100,250], weight_kg in [30,300], sex
\* in {male, female}, exercise_type in {cardio, strength, both, none},
\* dietary_preference in {vegetarian, vegan, pescatarian, omnivore},
\* smoking_today a boolean.
C8_SetFieldsInDomain ==
    /\ FloatWithin(checkin["sleep_hours"], 1, 12)
    /\ IntWithin(checkin["stress_score"], 1, 10)
    /\ IntWithin(checkin["mood_score"], 1, 5)
    /\ IntWithin(checkin["energy_score"], 1, 5)
    /\ IntWithin(checkin["water_glasses"], 0, 20)
    /\ IntWithin(checkin["exercise_minutes"], 0, 300)
    /\ IntWithin(checkin["alcohol_units"], 0, 20)
    /\ FloatWithin(checkin["social_hours"], 0, 24)
    /\ IntWithin(profile["age"], 10, 120)
    /\ FloatWithin(profile["height_cm"], 100, 250)
    /\ FloatWithin(profile["weight_kg"], 30, 300)
    /\ WordWithin(profile["sex"], {<<"m","a","l","e">>, <<"f","e","m","a","l","e">>})
    /\ WordWithin(checkin["exercise_type"],
                  {<<"c","a","r","d","i","o">>, <<"s","t","r","e","n","g","t","h">>, <<"b","o","t","h">>, <<"n","o","n","e">>})
    /\ profile["dietary_preference"] # None
    /\ WordWithin(profile["dietary_preference"],
                  {<<"v","e","g","e","t","a","r","i","a","n">>, <<"v","e","g","a","n">>, <<"p","e","s","c","a","t","a","r","i","a","n">>, <<"o","m","n","i","v","o","r","e">>})
    /\ checkin["smoking_today"] \in {None, PyBool(TRUE), PyBool(FALSE)}

\* C8 witness: a payload of values just outside every range was applied to a
\* session that held values on the bounds, and the held values stayed.
C8_Witness ==
    /\ path = "applied"
    /\ updates = PayloadBeyond
    /\ checkin["sleep_hours"] = PyFloat(12, 1)
    /\ checkin["stress_score"] = PyInt(10)
    /\ profile["age"] = PyInt(10)
    /\ profile["sex"] = PyStr(<<"f","e","m","a","l","e">>)
    /\ checkin["smoking_today"] = PyBool(TRUE)

\* the value field f holds
FieldOf(p, c, f) == IF f \in CheckinFields THEN c[f] ELSE p[f]

\* C9: for any payload map, _apply_updates does not raise, and every field
\* ends as its own block of the payload leaves it: a rejected value keeps the
\* field as it was, a value that validates is written, whatever the other
\* fields of the payload hold.
C9_NeverRaisesFieldsIndependent ==
    [][IsDict(updates') =>
          /\ ret' # Raise
          /\ \A f \in FieldNames :
                FieldOf(profile', checkin', f) =
                    FieldOf(FieldStep([p |-> profile, c |-> checkin, raised |-> FALSE],
                                      updates', f).p,
                            FieldStep([p |-> profile, c |-> checkin, raised |-> FALSE],
                                      updates', f).c, f)]_vars

(***************************************************************************)
(* Properties of _classify_issue (SpecClassify)                            *)
(***************************************************************************)
\* the user-authored messages of the conversation
UserMessages == SelectSeq(history, LAMBDA m : m.role = "user")

\* the lower-cased concatenation of all user turns
UserConcat == JoinSpace([i \in 1..Len(UserMessages) |-> Lower(UserMessages[i].content.c)])

\* the categories with a keyword that occurs in the user text
CategoriesHit ==
    {c \in DOMAIN ISSUE_KEYWORDS :
        \E i \in 1..Len(ISSUE_KEYWORDS[c]) : Contains(UserConcat, ISSUE_KEYWORDS[c][i])}

\* C10: when keywords of exactly one category C occur in the lower-cased
\* concatenation of the user turns, _classify_issue sets issue_type to C with
\* C's list; with keywords of two or more categories, or of none, it sets
\* general_wellness with its list; agent-authored turns have no influence.
C10_ClassifiesByUserKeywords ==
    path = "classified" =>
        /\ IF Cardinality(CategoriesHit) = 1
           THEN \E c \in CategoriesHit :
                   /\ issue_type = IssueName(c)
                   /\ relevant_metrics = Metrics(ISSUE_METRICS[c])
           ELSE /\ issue_type = IssueName("general_wellness")
                /\ relevant_metrics = Metrics(ISSUE_METRICS["general_wellness"])
        /\ classify_issue(UserMessages).issue_type = issue_type

\* C10 witness: a conversation classified by the one category of the user's
\* words, while an agent-authored turn holds a keyword of another category.
C10_Witness ==
    /\ path = "classified"
    /\ issue_type = IssueName("emotional")
    /\ relevant_metrics = Metrics(ISSUE_METRICS["emotional"])
    /\ \E i \in 1..Len(history) :
          /\ history[i].role = "model"
          /\ Contains(Lower(history[i].content.c), <<"b","r","a","i","n"," ","f","o","g">>)

(***************************************************************************)
(* Journey mode and issue type (Spec)                                      *)
(***************************************************************************)
\* C11: whenever the journey mode is BUILD_PLAN and issue_type is set,
\* issue_type is build_plan and the active list is the build_plan list,
\* whatever the order in which the mode keyword, the keyword classification
\* and a service-supplied issue_type arrive.
C11_BuildPlanModeForcesBuildPlanIssue ==
    (journey_mode = JourneyMode("BUILD_PLAN") /\ issue_type # None) =>
        /\ issue_type = IssueName("build_plan")
        /\ relevant_metrics = Metrics(ISSUE_METRICS["build_plan"])

\* C12: once a turn has returned COMPLETE and the system has left the INTAKE
\* phase, a later turn calls the extraction service no more, classifies
\* nothing, changes no profile and no check-in field, and the phase never
\* returns to INTAKE.
C12_NoIntakeWorkAfterComplete ==
    [][phase = "ANALYSIS" =>
          /\ response' = NoResponse
          /\ issue_type' = issue_type
          /\ relevant_metrics' = relevant_metrics
          /\ profile' = profile
          /\ checkin' = checkin
          /\ phase' # "INTAKE"]_vars

(***************************************************************************)
(* Resuming a stored session (SpecResume): between two turns a new         *)
(* NiravaSystem may be constructed on the session's id, which restores the *)
(* session from the record of the session service and starts a new         *)
(* IntakeAgent.                                                            *)
(***************************************************************************)
\* the UserProfile _restore_from_stored builds: stored.profile.get(f) for the
\* six fields it passes, the dataclass default for dietary_preference
restored_profile(sess) ==
    [f \in ProfileFields |->
        IF f = "dietary_preference" THEN PyStr(Omnivore)
        ELSE IF f \in DOMAIN sess.profile THEN sess.profile[f] ELSE None]

\* a fresh DailyCheckIn with every stored key it has as an attribute set
restored_checkin(sess) ==
    [f \in CheckinFields |->
        IF f \in DOMAIN sess.checkin THEN sess.checkin[f] ELSE None]

\* bound: a session is resumed before its turn MaxResumedTurns + 1
MaxResumedTurns == 1

\* NiravaSystem(session_id=...) on a session the store holds
Resume ==
    /\ UserTurns(history) <= MaxResumedTurns
    /\ phase' = stored.phase
    /\ sys_issue_type' = stored.issue_type
    /\ profile' = restored_profile(stored)
    /\ history' = stored.history
    /\ checkin' = restored_checkin(stored)
    /\ journey_mode' = None
    /\ issue_type' = None
    /\ relevant_metrics' = None
    /\ response' = NoResponse
    /\ updates' = NoResponse
    /\ result' = None
    /\ path' = "resumed"
    /\ ret' = None
    /\ UNCHANGED <<has_model, stored, signalled>>

NextResume == Process \/ Resume

SpecResume == Init /\ [][NextResume]_vars

\* the payload of the last _apply_updates call carries the field
Supplied(f) == IsDict(updates) /\ f \in DOMAIN updates.m

\* C13: in every reachable state, the states reached by resuming a session of
\* the store included, a fact counts as collected only if _apply_updates wrote
\* a validated value for it: no fact is collected at the start, and a fact
\* becomes collected only in a turn whose payload supplies it.
C13_CollectedOnlyIfWrittenByApplyUpdates ==
    [][\A f \in FieldNames :
          (is_collected(profile', checkin', f) /\ ~is_collected(profile, checkin, f))
              => (path' \in {"service", "except"} /\ Supplied(f)')]_vars

(***************************************************************************)
(* The fallback responder (Spec)                                           *)
(***************************************************************************)
\* the opening questions of _fallback
OpeningQuestions == {Text(replies[i]) : i \in 1..Len(replies)}

\* C14: a turn answered by the fallback returns a record with empty
\* extracted_updates; up to the second user turn it is CONTINUE with one of the
\* fixed opening questions; after the second user turn it is COMPLETE with no
\* reply exactly when the six mandatory check-in facts are set, which is when
\* is_complete is true and missing_fields is empty, and CONTINUE with a
\* non-empty reply otherwise.  Without a model the turn changes no profile
\* field, no check-in field and no issue_type.
C14_FallbackByTurnAndMandatorySix ==
    [][path' \in {"no_model", "except"} =>
          /\ DOMAIN result' = {"status", "reply", "extracted_updates"}
          /\ result'.extracted_updates = EmptyDict
          /\ UserTurns(history') <= 2 =>
                (result'.status = "CONTINUE" /\ result'.reply \in OpeningQuestions)
          /\ UserTurns(history') > 2 =>
                /\ result'.status = "COMPLETE" <=> is_complete(checkin')
                /\ result'.status = "COMPLETE" <=> \A f \in MandatoryFields : checkin'[f] # None
                /\ is_complete(checkin') <=> missing_fields(checkin') = <<>>
                /\ result'.status = "COMPLETE" => result'.reply = None
                /\ result'.status # "COMPLETE" =>
                      /\ result'.status = "CONTINUE"
                      /\ result'.reply.k = "text"
                      /\ result'.reply.s # ""
          /\ path' = "no_model" =>
                (profile' = profile /\ checkin' = checkin /\ issue_type' = issue_type)]_vars

\* C14 witness: after the second user turn a failed service call is answered
\* by the fallback with COMPLETE and no reply, the six mandatory facts set.
C14_Witness ==
    /\ path = "except"
    /\ UserTurns(history) > 2
    /\ is_complete(checkin)
    /\ result.status = "COMPLETE"
    /\ result.reply = None

(***************************************************************************)
(* _parse_int and _parse_float on their own (SpecParse): a value is drawn  *)
(* from ParseInputs and handed to both; updates is the value, ret is the   *)
(* pair of what the two calls returned (Raise: the call raised).           *)
(***************************************************************************)
ParseNumerals == {<<"3">>, <<"4">>, <<"5">>, <<"6">>, <<"1","0">>}
ParseSeps == {<<"-">>, <<" ","o","r"," ">>, <<" ","t","o"," ">>, <<" ","o","u","t"," ","o","f"," ">>, <<"/">>, <<".">>}
ParsePrefixes == {<<>>, <<"m","a","y","b","e"," ">>}
ParseSuffixes == {<<>>, <<" ","g","l","a","s","s","e","s">>, <<" ","o","u","t"," ","o","f"," ","1","0">>,
                  <<"/","1","0">>}

\* phrases with one numeral, and with two numerals around a separator
ParsePhrases ==
    {PyStr(pre \o a \o post) :
        pre \in ParsePrefixes, a \in ParseNumerals, post \in ParseSuffixes}
    \cup
    {PyStr(pre \o a \o sep \o b \o post) :
        pre \in ParsePrefixes, a \in ParseNumerals, sep \in ParseSeps,
        b \in ParseNumerals, post \in ParseSuffixes}

\* values without a digit, values that are not strings, a digit run beyond
\* the float range
ParseValues ==
    {PyStr(<<"t","h","i","r","t","y">>), PyStr(<<>>), PyStr(<<" ">>), PyStr(<<"n","/","a">>), PyStr(<<"a"," ","-"," ","b">>),
     PyStr(<<"t","h","i","s"," ","o","r"," ","t","h","a","t">>), PyBool(TRUE), PyBool(FALSE), None, PyList,
     PyInt(7), PyInt(-2), PyFloat(7, 2), PyInf,
     PyStr(<<HugeRun>>), PyStr(<<"5", "-", HugeRun>>), PyStr(<<"0", ".", HugeRun>>),
     PyStr(<<"1",".","2",".","3","-","4">>), PyStr(<<"I","'","m"," ","2","8"," ","y","e","a","r","s"," ","o","l","d">>)}

ParseInputs == ParsePhrases \cup ParseValues

InitParse ==
    /\ has_model = FALSE
    /\ history = <<>>
    /\ profile = UserProfile
    /\ checkin = DailyCheckIn
    /\ journey_mode = None
    /\ issue_type = None
    /\ relevant_metrics = None
    /\ phase = "INTAKE"
    /\ sys_issue_type = None
    /\ stored = create_session
    /\ response = NoResponse
    /\ updates \in ParseInputs
    /\ signalled = FALSE
    /\ result = None
    /\ path = "start"
    /\ ret = None

\* self._parse_int(value), self._parse_float(value)
Parse ==
    /\ path = "start"
    /\ ret' = [parse_int |-> parse_int(updates), parse_float |-> parse_float(updates)]
    /\ path' = "parsed"
    /\ UNCHANGED <<has_model, history, profile, checkin, journey_mode, issue_type,
                   relevant_metrics, phase, sys_issue_type, stored, response, updates,
                   signalled, result>>

NextParse == Parse

SpecParse == InitParse /\ [][NextParse]_vars

\* the number a numeral of ParseNumerals writes
Val(a) == DigitsVal(a)

\* C15: when the mean of a range "a-b" or of an alternative "a or b" lands on
\* a half, parse_float returns the exact mean and parse_int rounds the tie away
\* from zero, as it does for "a.5": parse_int("5-6") = 6,
\* parse_int("maybe 4 or 5") = 5, parse_int("3.5") = 4.
C15_TiesRoundAwayFromZero ==
    path = "parsed" =>
        \A a \in ParseNumerals :
            /\ updates = PyStr(a \o <<".","5">>) =>
                  /\ ret.parse_float = Rat(2 * Val(a) + 1, 2)
                  /\ ret.parse_int = PyInt(Val(a) + 1)
            /\ \A b \in ParseNumerals :
                  ((Val(a) + Val(b)) % 2 = 1
                   /\ updates \in {PyStr(a \o <<"-">> \o b), PyStr(a \o <<" ","o","r"," ">> \o b),
                                   PyStr(<<"m","a","y","b","e"," ">> \o a \o <<" ","o","r"," ">> \o b)}) =>
                      /\ ret.parse_float = Rat(Val(a) + Val(b), 2)
                      /\ ret.parse_int = PyInt((Val(a) + Val(b) + 1) \div 2)

HasDigit(value) == \E i \in 1..Len(StrOf(value)) : IsDigit(StrOf(value)[i])

\* C17: for a value without a digit ("thirty", "", a boolean) parse_int and
\* parse_float return None, never zero, and for no value whatsoever does
\* either of them raise.
C17_NoneWithoutDigitNeverRaises ==
    path = "parsed" =>
        /\ ret.parse_int # Raise
        /\ ret.parse_float # Raise
        /\ ~HasDigit(updates) => (ret.parse_int = None /\ ret.parse_float = None)

\* C18: parse_float treats a range "a to b" like "a-b": it returns the mean of
\* a and b, parse_float("5 to 6") = 5.5.
C18_ToRangeIsMean ==
    path = "parsed" =>
        \A a \in ParseNumerals, b \in ParseNumerals :
            updates = PyStr(a \o <<" ","t","o"," ">> \o b) => ret.parse_float = Rat(Val(a) + Val(b), 2)

(***************************************************************************)
(* Classification of a two-turn conversation (SpecClassify)                *)
(***************************************************************************)
\* C19: a session whose user turns are "I'm stressed" and "can't focus at
\* work" has keyword hits in two categories and is classified as
\* general_wellness with the general_wellness list.
C19_StressedAndUnfocusedIsGeneralWellness ==
    (/\ path = "classified"
     /\ Len(UserMessages) = 2
     /\ UserMessages[1].content = PyStr(<<"I","'","m"," ","s","t","r","e","s","s","e","d">>)
     /\ UserMessages[2].content = PyStr(<<"c","a","n","'","t"," ","f","o","c","u","s"," ","a","t"," ","w","o","r","k">>)) =>
        /\ Cardinality(CategoriesHit) = 2
        /\ issue_type = IssueName("general_wellness")
        /\ relevant_metrics = Metrics(ISSUE_METRICS["general_wellness"])

(***************************************************************************)
(* Journey mode selection (Spec)                                           *)
(***************************************************************************)
\* C20: journey_mode is assigned at most once and only at session start, on
\* the first user turn: a step changes it only from unset and only in the
\* first user turn, so a mode keyword on a later turn neither sets nor changes
\* it.
C20_JourneyModeOnlyAtSessionStart ==
    [][journey_mode' # journey_mode =>
          (journey_mode = None /\ UserTurns(history') = 1)]_vars

(***************************************************************************)
(* The stored session after a turn (SpecResume)                            *)
(***************************************************************************)
\* C21: after every turn the store holds the state of that turn: a new
\* NiravaSystem restored from the stored session right after the turn has the
\* same profile fields, check-in fields, journey mode, history and issue
\* classification (the intake agent's issue_type and active list included) as
\* the live session had at the end of the turn.
C21_RestoreYieldsStateOfLastTurn ==
    [][(TurnTaken /\ path' = "resumed") =>
          /\ profile' = profile
          /\ checkin' = checkin
          /\ journey_mode' = journey_mode
          /\ history' = history
          /\ sys_issue_type' = sys_issue_type
          /\ issue_type' = issue_type
          /\ relevant_metrics' = relevant_metrics]_vars

(***************************************************************************)
(* The needed-metrics list of the extraction request (Spec):               *)
(* _build_prompt, _get_missing_relevant.                                   *)
(***************************************************************************)
\* the metric names as texts
MetricChars ==
    [age |-> <<"a","g","e">>,
     sex |-> <<"s","e","x">>,
     height_cm |-> <<"h","e","i","g","h","t","_","c","m">>,
     weight_kg |-> <<"w","e","i","g","h","t","_","k","g">>,
     origin |-> <<"o","r","i","g","i","n">>,
     religion |-> <<"r","e","l","i","g","i","o","n">>,
     dietary_preference |-> <<"d","i","e","t","a","r","y","_","p","r","e","f","e","r","e","n","c","e">>,
     sleep_hours |-> <<"s","l","e","e","p","_","h","o","u","r","s">>,
     water_glasses |-> <<"w","a","t","e","r","_","g","l","a","s","s","e","s">>,
     mood_score |-> <<"m","o","o","d","_","s","c","o","r","e">>,
     energy_score |-> <<"e","n","e","r","g","y","_","s","c","o","r","e">>,
     stress_score |-> <<"s","t","r","e","s","s","_","s","c","o","r","e">>,
     exercise_minutes |-> <<"e","x","e","r","c","i","s","e","_","m","i","n","u","t","e","s">>,
     exercise_type |-> <<"e","x","e","r","c","i","s","e","_","t","y","p","e">>,
     social_hours |-> <<"s","o","c","i","a","l","_","h","o","u","r","s">>,
     alcohol_units |-> <<"a","l","c","o","h","o","l","_","u","n","i","t","s">>,
     smoking_today |-> <<"s","m","o","k","i","n","g","_","t","o","d","a","y">>]

\* s.replace(old, new)
RECURSIVE Replace(_, _, _)
Replace(s, old, new) ==
    LET p == Find(s, old) IN
    IF p = 0 THEN s
    ELSE SubSeq(s, 1, p - 1) \o new \o Replace(SubSeq(s, p + Len(old), Len(s)), old, new)

\* metric.replace("_", " ").replace(" score", "").replace(" hours", "")
\*       .replace(" glasses", "").replace(" minutes", ""), for every metric
friendly_name ==
    [metric \in DOMAIN MetricChars |->
        Replace(Replace(Replace(Replace(Replace(MetricChars[metric],
            <<"_">>, <<" ">>), <<" ","s","c","o","r","e">>, <<>>),
            <<" ","h","o","u","r","s">>, <<>>),
            <<" ","g","l","a","s","s","e","s">>, <<>>),
            <<" ","m","i","n","u","t","e","s">>, <<>>)]

\* the friendly names of every metric, collected or not
RECURSIVE get_missing_relevant_unfiltered(_, _, _)
get_missing_relevant_unfiltered(p, c, metrics) ==
    IF metrics = <<>> THEN <<>>
    ELSE <<friendly_name[metrics[1]]>> \o get_missing_relevant_unfiltered(p, c, Tail(metrics))

\* the loop of _get_missing_relevant over self.relevant_metrics
RECURSIVE get_missing_relevant(_, _, _)
get_missing_relevant(p, c, metrics) ==
    IF metrics = <<>> THEN <<>>
    ELSE (IF ~is_collected(p, c, metrics[1]) THEN <<friendly_name[metrics[1]]>> ELSE <<>>)
         \o get_missing_relevant(p, c, Tail(metrics))

\* needed of _build_prompt (lines 271-275): st is the session and the agent
\* when the prompt is built
needed(st) ==
    IF Truthy(st.issue_type) /\ st.relevant_metrics # None
    THEN get_missing_relevant(st.profile, st.checkin, st.relevant_metrics.l)
    ELSE missing_fields(st.checkin)

\* a step in which an extraction request is built
RequestBuilt == has_model /\ path' \in {"service", "except"}

\* the session and the agent at the point the prompt is built: after the mode
\* selection and the classification of the turn
AtRequest ==
    classify_if_needed(select_journey_mode(
        Session(Append(history, history'[Len(history) + 1]))))

\* the entries of the list that are not yet collected, in the list's order
Uncollected(p, c, metrics) == SelectSeq(metrics, LAMBDA f : ~is_collected(p, c, f))

\* C22 as stated: whenever a list L is active, the needed-metrics list handed
\* to the extraction request is the sub-list of the entries of L that are not
\* yet collected, in L's order.
C22_NeededIsUncollectedEntries ==
    [][RequestBuilt =>
          \A a \in {AtRequest} :
          a.relevant_metrics # None =>
          \A u \in {Uncollected(profile, checkin, a.relevant_metrics.l)} :
             needed(a) = [i \in 1..Len(u) |-> MetricChars[u[i]]]]_vars

\* the friendly name of each metric
FriendlyNames ==
    [age |-> <<"a","g","e">>,
     sex |-> <<"s","e","x">>,
     height_cm |-> <<"h","e","i","g","h","t"," ","c","m">>,
     weight_kg |-> <<"w","e","i","g","h","t"," ","k","g">>,
     origin |-> <<"o","r","i","g","i","n">>,
     religion |-> <<"r","e","l","i","g","i","o","n">>,
     dietary_preference |-> <<"d","i","e","t","a","r","y"," ","p","r","e","f","e","r","e","n","c","e">>,
     sleep_hours |-> <<"s","l","e","e","p">>,
     water_glasses |-> <<"w","a","t","e","r">>,
     mood_score |-> <<"m","o","o","d">>,
     energy_score |-> <<"e","n","e","r","g","y">>,
     stress_score |-> <<"s","t","r","e","s","s">>,
     exercise_minutes |-> <<"e","x","e","r","c","i","s","e">>,
     exercise_type |-> <<"e","x","e","r","c","i","s","e"," ","t","y","p","e">>,
     social_hours |-> <<"s","o","c","i","a","l">>,
     alcohol_units |-> <<"a","l","c","o","h","o","l"," ","u","n","i","t","s">>,
     smoking_today |-> <<"s","m","o","k","i","n","g"," ","t","o","d","a","y">>]

\* C22 amended: whenever a list L is active, the needed-metrics list handed to
\* the extraction request holds the friendly names ("sleep" for sleep_hours,
\* "exercise" for exercise_minutes, "height cm" for height_cm, ...) of exactly
\* the entries of L that are not yet collected, each once and in L's order;
\* its length plus collected(L) is len(L), and the name of an entry is in it
\* exactly while the entry's field is not collected.
C22_NeededIsFriendlyNamesOfUncollected ==
    [][RequestBuilt =>
          \A a \in {AtRequest} :
          a.relevant_metrics # None =>
          \A L \in {a.relevant_metrics.l} :
          \A n \in {needed(a)} :
          \A u \in {Uncollected(profile, checkin, L)} :
             /\ n = [i \in 1..Len(u) |-> FriendlyNames[u[i]]]
             /\ Len(n) + collected(profile, checkin, L) = Len(L)
             /\ \A i \in 1..Len(n), j \in 1..Len(n) : n[i] = n[j] => i = j
             /\ \A k \in 1..Len(L) :
                   (\E i \in 1..Len(n) : n[i] = FriendlyNames[L[k]])
                   <=> ~is_collected(profile, checkin, L[k])]_vars

\* C22 witness: a third turn on the service path with a list that was active
\* when its request was built, some of its entries collected and some not.
C22_Witness ==
    /\ path = "service"
    /\ UserTurns(history) = 3
    /\ relevant_metrics # None
    /\ collected(profile, checkin, relevant_metrics.l) > 0
    /\ get_missing_relevant(profile, checkin, relevant_metrics.l) # <<>>

(***************************************************************************)
(* Classification from the second user turn on (Spec)                      *)
(***************************************************************************)
\* C23: after any turn at which at least two user turns have been recorded
\* the session is classified: issue_type is set and a priority list is
\* active, whether the extraction service answers, fails or is absent.
C23_ClassifiedFromSecondTurn ==
    (TurnTaken /\ UserTurns(history) >= 2) =>
        (issue_type # None /\ relevant_metrics # None)

\* C24: parse_int and parse_float implement one grammar: for every value,
\* parse_int is None exactly when parse_float is None, and otherwise
\* parse_int's result is parse_float's result rounded to a nearest integer;
\* values that combine separators, such as a range followed by "/", included.
C24_ParseIntIsRoundedParseFloat ==
    path = "parsed" =>
        /\ ret.parse_int = None <=> ret.parse_float = None
        /\ ret.parse_float.k = "float" =>
              /\ ret.parse_int.k = "int"
              /\ 2 * ret.parse_int.i * ret.parse_float.d
                    <= 2 * ret.parse_float.n + ret.parse_float.d
              /\ 2 * ret.parse_int.i * ret.parse_float.d
                    >= 2 * ret.parse_float.n - ret.parse_float.d

\* C25: when the fallback runs after the second user turn with a mandatory
\* field missing, its reply is the canned question of a mandatory field that
\* is missing: the sleep question only when sleep_hours is missing, the water
\* question only when water_glasses is missing, and so on; never a generic
\* reply.
C25_FallbackAsksQuestionOfMissingField ==
    (/\ path \in {"no_model", "except"}
     /\ UserTurns(history) > 2
     /\ ~is_complete(checkin)) =>
        \E f \in MandatoryFields :
            /\ checkin[f] = None
            /\ result.reply = Text(questions[f])

(***************************************************************************)
(* Evaluation cases on one live system (SpecEvaluate):                     *)
(* AgentEvaluator.evaluate_case replaces the session, the phase and the    *)
(* system's issue_type of the NiravaSystem it was given, and calls process *)
(* with the input of the case; the IntakeAgent of the system is kept.      *)
(***************************************************************************)
\* the session after "Reset system state", with the user message of process
\* and the agent as the previous case left it
CaseSession(user_text) ==
    [history |-> <<[role |-> "user", content |-> PyStr(user_text)]>>,
     profile |-> UserProfile, checkin |-> DailyCheckIn, journey_mode |-> None,
     issue_type |-> issue_type, relevant_metrics |-> relevant_metrics,
     updates |-> NoResponse, result |-> None, path |-> "start"]

\* evaluate_case(case): the reset and self.system.process(case.user_input)
evaluate_case(user_text, resp, rnd, pipe) ==
    \E r \in {run_conversation(has_model, CaseSession(user_text), resp, rnd)} :
    \E sit \in {IF "issue_type" \in DOMAIN r.result /\ Truthy(r.result.issue_type)
                THEN r.result.issue_type ELSE None} :
    \E reply \in {IF r.result.status = "CONTINUE" THEN r.result.reply
                  ELSE IF pipe = "ok" THEN coach_reply ELSE fallback_reply} :
        /\ profile' = r.profile
        /\ checkin' = r.checkin
        /\ journey_mode' = r.journey_mode
        /\ issue_type' = r.issue_type
        /\ relevant_metrics' = r.relevant_metrics
        /\ result' = r.result
        /\ path' = r.path
        /\ response' = resp
        /\ updates' = r.updates
        /\ signalled' = signals_complete(resp)
        /\ sys_issue_type' = sit
        /\ phase' = IF r.result.status = "CONTINUE" THEN "INTAKE" ELSE "ANALYSIS"
        /\ history' = Append(r.history, [role |-> "model", content |-> reply])
        /\ ret' = reply
        /\ stored' = IF r.result.status = "CONTINUE" \/ pipe = "ok"
                     THEN persist_session(stored, phase', sit, history', r.checkin)
                     ELSE stored
        /\ UNCHANGED has_model

EvaluateCase ==
    \E user_text \in UserTexts :
    \E resp \in (IF has_model THEN ServiceResponses ELSE {NoResponse}) :
    \E probe \in {run_conversation(has_model, CaseSession(user_text), resp, 1)} :
    \E rnd \in (IF probe.path \in {"no_model", "except"}
                THEN RandomDraws(probe.history, probe.checkin) ELSE {1}) :
    \E pipe \in (IF probe.result.status = "CONTINUE" THEN {"ok"} ELSE PipelineOutcomes) :
        evaluate_case(user_text, resp, rnd, pipe)

NextEvaluate == EvaluateCase

SpecEvaluate == Init /\ [][NextEvaluate]_vars

\* what the turn of the case gives on an intake agent that carries nothing
\* over: the same session, the same service response, no issue_type, no list
FreshCase ==
    run_conversation(has_model,
        [history |-> <<history'[1]>>, profile |-> UserProfile, checkin |-> DailyCheckIn,
         journey_mode |-> None, issue_type |-> None, relevant_metrics |-> None,
         updates |-> NoResponse, result |-> None, path |-> "start"],
        response', 1)

\* C26: after the reset of evaluate_case no classification state of the
\* previous session carries over: the issue_type and the priority list the
\* agent uses, and the issue_type the turn and the system report, are those of
\* a turn on the new session with nothing carried over.
C26_NoClassificationCarriedOver ==
    [][\A fresh \in {FreshCase} :
          /\ issue_type' = fresh.issue_type
          /\ relevant_metrics' = fresh.relevant_metrics
          /\ ("issue_type" \in DOMAIN result') = ("issue_type" \in DOMAIN fresh.result)
          /\ "issue_type" \in DOMAIN result' => result'.issue_type = fresh.result.issue_type]_vars

(***************************************************************************)
(* Values the service supplies (Spec)                                      *)
(***************************************************************************)
\* C27: in every reachable state issue_type is unset or one of the six
\* categories of the metric table, whatever issue_type the extraction service
\* returns.
C27_IssueTypeIsCategoryOrUnset ==
    \/ issue_type = None
    \/ (issue_type.k = "name" /\ issue_type.s \in Categories)

\* C28: every turn result with status CONTINUE carries a reply that is a
\* non-empty string, whatever reply the extraction service returned (missing,
\* null, empty); so process appends no message with null content to the
\* history and returns no null reply in the INTAKE phase.
C28_ContinueCarriesReply ==
    /\ (TurnTaken /\ result.status = "CONTINUE") =>
          (result.reply.k = "text" /\ result.reply.s # "")
    /\ \A i \in 1..Len(history) : history[i].content # None
    /\ phase = "INTAKE" => (ret # None \/ path = "start")

(***************************************************************************)
(* Negative values (SpecApply)                                             *)
(***************************************************************************)
\* the value is a negative number, or a text with "-" at position 0
IsMinus(v) ==
    CASE v.k = "int"   -> v.i < 0
      [] v.k = "float" -> v.n < 0
      [] v.k = "str"   -> Strip(v.c) # <<>> /\ Strip(v.c)[1] = "-"
      [] OTHER         -> FALSE

\* the value without its sign
Absolute(v) ==
    CASE v.k = "int"   -> PyInt(0 - v.i)
      [] v.k = "float" -> PyFloat(0 - v.n, v.d)
      [] v.k = "str"   -> PyStr(Tail(Strip(v.c)))

NonNegative(x) ==
    CASE x.k = "int"   -> x.i >= 0
      [] x.k = "float" -> x.n >= 0
      [] OTHER         -> TRUE

\* a non-negative number as a value of field f: an int field holds the number
\* rounded to an int, a float field holds it as a float
AsField(f, a) ==
    IF f \in IntFields
    THEN (IF a.k = "int" THEN a ELSE Round(a))
    ELSE (IF a.k = "int" THEN PyFloat(a.i, 1) ELSE a)

\* what _apply_updates parses the value of field f with
ParserOf(f, v) == IF f \in FloatFields THEN parse_float(v) ELSE parse_int(v)

\* the numeric fields of a payload, and those with a minus sign
NumericKeys(u) == DOMAIN u.m \cap (IntFields \cup FloatFields)
MinusKeys(u) == {f \in NumericKeys(u) : IsMinus(u.m[f])}

\* for every payload map and each of its values with a minus sign, the value
\* without the sign as field f holds it: a number as it is, a text parsed
AbsoluteValue ==
    [u \in {p \in Payloads : IsDict(p)} |->
        [f \in MinusKeys(u) |->
            IF u.m[f].k \in {"int", "float"}
            THEN AsField(f, Absolute(u.m[f]))
            ELSE ParserOf(f, Absolute(u.m[f]))]]

\* no parse of a value of the payload map is negative, and the parse of a
\* value with a minus sign is the parse of the value without it
ParsesOfPayload ==
    [u \in {p \in Payloads : IsDict(p)} |->
        /\ \A f \in NumericKeys(u) :
              NonNegative(parse_int(u.m[f])) /\ NonNegative(parse_float(u.m[f]))
        /\ \A f \in MinusKeys(u) :
              /\ parse_int(u.m[f]) = parse_int(Absolute(u.m[f]))
              /\ parse_float(u.m[f]) = parse_float(Absolute(u.m[f]))]

\* C29: parse_int and parse_float never return a negative number: the parse
\* of a value with a minus sign at position 0 equals the parse of the value
\* without it, and a negative raw value supplied for a numeric field is
\* written as its absolute value when that lies in the field's range and
\* leaves the field as it was when it does not.
C29_MinusSignIgnored ==
    [][(path' = "applied" /\ IsDict(updates')) =>
          /\ ParsesOfPayload[updates']
          /\ \A f \in MinusKeys(updates') :
             \A x \in {AbsoluteValue[updates'][f]} :
                FieldOf(profile', checkin', f) =
                   IF InRange(x, Ranges[f][1], Ranges[f][2])
                   THEN x
                   ELSE FieldOf(profile, checkin, f)]_vars

\* what the parsers keep: whatever the payload, no numeric field
\* is written with a negative number and no parse of its values is negative
NeverNegative ==
    /\ \A f \in IntFields \cup FloatFields : NonNegative(FieldOf(profile, checkin, f))
    /\ (path = "applied" /\ IsDict(updates)) =>
          \A f \in NumericKeys(updates) :
             NonNegative(parse_int(updates.m[f])) /\ NonNegative(parse_float(updates.m[f]))

(***************************************************************************)
(* A session without the extraction service (Spec)                         *)
(***************************************************************************)
\* C30: with no model for the whole session, which starts with no mandatory
\* check-in field set, no turn collects a field, no turn returns COMPLETE and
\* the system stays in the INTAKE phase: every turn is answered by the
\* fallback responder with CONTINUE.
C30_NoModelNeverCompletes ==
    ~has_model =>
        /\ profile = UserProfile
        /\ checkin = DailyCheckIn
        /\ phase = "INTAKE"
        /\ stored.phase = "INTAKE"
        /\ TurnTaken =>
              /\ path = "no_model"
              /\ result.status = "CONTINUE"
              /\ result.extracted_updates = Dict(<<>>)

\* C30 witness: the third user turn of a session without a model, the first
\* on which the fallback responder looks at the mandatory fields, was
\* answered with CONTINUE and the phase is INTAKE.
C30_Witness ==
    /\ ~has_model
    /\ path = "no_model"
    /\ UserTurns(history) = 3
    /\ result.status = "CONTINUE"
    /\ \A f \in MandatoryFields : checkin[f] = None
    /\ phase = "INTAKE"

=============================================================================
